---------------------------- MODULE Spec2Model ----------------------------
(***************************************************************************)
(* Model of the paywise ingest core (src/app/logic.py): the money parsers, *)
(* the payroll and commission normalizers and the aggregator               *)
(* build_payload.                                                          *)
(*                                                                         *)
(* Cells are strings, as the readers deliver them (dtype=str).  A float is *)
(* a record [k, m, e]: k = "fin" is the decimal m * 10^-e in normal form   *)
(* (e = 0, or m not a multiple of 10), k = "inf" is +/-Infinity with the   *)
(* sign in m, k = "nan" is NaN.  Decimal arithmetic is exact: the model    *)
(* has no rounding, which is what the spec's "within tolerance" allows.    *)
(***************************************************************************)
EXTENDS Integers, Sequences, FiniteSets, TLC

VARIABLES pc,              \* the steps of the run still to be taken, in order
          x, money,        \* _to_money: its argument and its result
          p_upload, p_df,  \* payroll: the upload, the records read from it
          c_upload, c_df,  \* commission: the upload, the table decoded from it
          p_norm, c_norm,  \* the normalized record sets
          payload          \* build_payload's result

vars == <<pc, x, money, p_upload, p_df, c_upload, c_df, p_norm, c_norm, payload>>

-----------------------------------------------------------------------------
(* Bounds of the model *)

MaxLen == 4        \* longest enumerated cell string given to _to_money

-----------------------------------------------------------------------------
(* Strings *)

Ch(s, i) == SubSeq(s, i, i)

Whitespace == {" ", "\t", "\n", "\r"}

Digits == "0123456789"

DigitSet == {Ch(Digits, i) : i \in 1..10}

DigitValOf == [c \in DigitSet |-> (CHOOSE i \in 1..10 : Ch(Digits, i) = c) - 1]

IsDigit(c) == c \in DigitSet

DigitVal(c) == DigitValOf[c]

Uppers == "ABCDEFGHIJKLMNOPQRSTUVWXYZ"

Lowers == "abcdefghijklmnopqrstuvwxyz"

UpperSet == {Ch(Uppers, i) : i \in 1..26}

LowerSet == {Ch(Lowers, i) : i \in 1..26}

LowerOf == [c \in UpperSet |-> Ch(Lowers, CHOOSE i \in 1..26 : Ch(Uppers, i) = c)]

IsAlpha(c) == c \in UpperSet \/ c \in LowerSet

LowerCh(c) == IF c \in UpperSet THEN LowerOf[c] ELSE c

RECURSIVE Lower(_)
Lower(s) == IF s = "" THEN "" ELSE LowerCh(Ch(s, 1)) \o Lower(Tail(s))

RECURSIVE LStrip(_)
LStrip(s) == IF s # "" /\ Ch(s, 1) \in Whitespace THEN LStrip(Tail(s)) ELSE s

RECURSIVE RStrip(_)
RStrip(s) ==
    IF s # "" /\ Ch(s, Len(s)) \in Whitespace
    THEN RStrip(SubSeq(s, 1, Len(s) - 1))
    ELSE s

Strip(s) == RStrip(LStrip(s))

\* sub in s
Contains(s, sub) ==
    \E i \in 1..(Len(s) - Len(sub) + 1) : SubSeq(s, i, i + Len(sub) - 1) = sub

StartsWith(s, p) == Len(s) >= Len(p) /\ SubSeq(s, 1, Len(p)) = p

EndsWith(s, p) == Len(s) >= Len(p) /\ SubSeq(s, Len(s) - Len(p) + 1, Len(s)) = p

\* s.replace(c, "") for a one-character c
RECURSIVE Remove(_, _)
Remove(s, c) ==
    IF s = "" THEN ""
    ELSE (IF Ch(s, 1) = c THEN "" ELSE Ch(s, 1)) \o Remove(Tail(s), c)

\* str.isdigit()
AllDigits(s) == s # "" /\ \A i \in 1..Len(s) : IsDigit(Ch(s, i))

HasDigit(s) == \E i \in 1..Len(s) : IsDigit(Ch(s, i))

HasAlpha(s) == \E i \in 1..Len(s) : IsAlpha(Ch(s, i))

CountChar(s, c) == Cardinality({i \in 1..Len(s) : Ch(s, i) = c})

-----------------------------------------------------------------------------
(* Floats *)

RECURSIVE Pow10(_)
Pow10(n) == IF n = 0 THEN 1 ELSE 10 * Pow10(n - 1)

RECURSIVE Norm(_, _)
Norm(m, e) ==
    IF e > 0 /\ m % 10 = 0 THEN Norm(m \div 10, e - 1)
    ELSE [k |-> "fin", m |-> m, e |-> e]

Fin(m, e) == Norm(m, e)

Zero == Fin(0, 0)

PInf == [k |-> "inf", m |-> 1, e |-> 0]

NInf == [k |-> "inf", m |-> -1, e |-> 0]

NaN == [k |-> "nan", m |-> 0, e |-> 0]

\* a result not yet computed
Unset == [k |-> "unset", m |-> 0, e |-> 0]

IsFinite(a) == a.k = "fin"

\* unary minus
FNeg(a) == IF a.k = "nan" THEN a ELSE [a EXCEPT !.m = -a.m]

\* a + b
FAdd(a, b) ==
    IF a.k = "nan" \/ b.k = "nan" THEN NaN
    ELSE IF a.k = "inf" /\ b.k = "inf" THEN (IF a.m = b.m THEN a ELSE NaN)
    ELSE IF a.k = "inf" THEN a
    ELSE IF b.k = "inf" THEN b
    ELSE LET e == IF a.e > b.e THEN a.e ELSE b.e
         IN  Norm(a.m * Pow10(e - a.e) + b.m * Pow10(e - b.e), e)

\* a == b
FEq(a, b) == a.k # "nan" /\ b.k # "nan" /\ a = b

\* a > b
FGt(a, b) ==
    IF a.k = "nan" \/ b.k = "nan" THEN FALSE
    ELSE IF a.k = "inf" THEN a.m = 1 /\ b # a
    ELSE IF b.k = "inf" THEN b.m = -1
    ELSE LET e == IF a.e > b.e THEN a.e ELSE b.e
         IN  a.m * Pow10(e - a.e) > b.m * Pow10(e - b.e)

RECURSIVE DigitsVal(_)
DigitsVal(s) ==
    IF s = "" THEN 0
    ELSE 10 * DigitsVal(SubSeq(s, 1, Len(s) - 1)) + DigitVal(Ch(s, Len(s)))

\* float(s) for a string the pattern -?\d+(?:\.\d+)? matched
DecimalValue(s) ==
    LET neg  == Ch(s, 1) = "-"
        body == IF neg THEN Tail(s) ELSE s
        dots == {i \in 1..Len(body) : Ch(body, i) = "."}
        dot  == IF dots = {} THEN Len(body) + 1 ELSE CHOOSE i \in dots : TRUE
        ip   == SubSeq(body, 1, dot - 1)
        fp   == SubSeq(body, dot + 1, Len(body))
        mag  == DigitsVal(ip) * Pow10(Len(fp)) + DigitsVal(fp)
    IN  Fin(IF neg THEN -mag ELSE mag, Len(fp))

-----------------------------------------------------------------------------
(* _to_money *)

None == [none |-> TRUE, s |-> ""]

Str(s) == [none |-> FALSE, s |-> s]

\* last index of the run of digits that starts at i
RECURSIVE DigitRunEnd(_, _)
DigitRunEnd(t, i) ==
    IF i < Len(t) /\ IsDigit(Ch(t, i + 1)) THEN DigitRunEnd(t, i + 1) ELSE i

\* the match of -?\d+(?:\.\d+)? that starts at i, "" when there is none
MatchAt(t, i) ==
    LET d == IF Ch(t, i) = "-" THEN i + 1 ELSE i
    IN  IF d > Len(t) \/ ~IsDigit(Ch(t, d)) THEN ""
        ELSE LET j == DigitRunEnd(t, d)
                 k == IF j + 2 <= Len(t) /\ Ch(t, j + 1) = "." /\ IsDigit(Ch(t, j + 2))
                      THEN DigitRunEnd(t, j + 2)
                      ELSE j
             IN  SubSeq(t, i, k)

\* re.search(r"-?\d+(?:\.\d+)?", t): the leftmost match, "" for no match
RECURSIVE ReSearchFrom(_, _)
ReSearchFrom(t, i) ==
    IF i > Len(t) THEN ""
    ELSE IF MatchAt(t, i) # "" THEN MatchAt(t, i)
    ELSE ReSearchFrom(t, i + 1)

re_search_number(t) == ReSearchFrom(t, 1)

\* the replace chain with the thousands separator left in
StripMoneyCharsKeepComma(t) == Remove(Remove(Remove(t, "$"), "("), ")")

StripMoneyChars(t) == Remove(Remove(Remove(Remove(t, "$"), ","), "("), ")")

to_money_str(s) ==
    LET t == Strip(s)
    IN  IF t = "" THEN Zero
        ELSE LET neg == StartsWith(t, "(") /\ EndsWith(t, ")")
                 u   == StripMoneyChars(t)
                 m   == re_search_number(u)
                 v   == IF m # "" THEN DecimalValue(m) ELSE Zero
             IN  IF neg THEN FNeg(v) ELSE v

_to_money(a) == IF a.none THEN Zero ELSE to_money_str(a.s)

-----------------------------------------------------------------------------
(* build_payload *)

\* the characters of the model's strings in code point order
CodePoints == "\t\n\r !#$%&()*+,-./0123456789:;<=>?@ABCDEFGHIJKLMNOPQRSTUVWXYZ[]^_abcdefghijklmnopqrstuvwxyz{|}~"

OrdOf ==
    [c \in {Ch(CodePoints, i) : i \in 1..Len(CodePoints)} |->
        CHOOSE i \in 1..Len(CodePoints) : Ch(CodePoints, i) = c]

Ord(c) == OrdOf[c]

\* a < b for str
RECURSIVE StrLess(_, _)
StrLess(a, b) ==
    IF b = "" THEN FALSE
    ELSE IF a = "" THEN TRUE
    ELSE IF Ch(a, 1) = Ch(b, 1) THEN StrLess(Tail(a), Tail(b))
    ELSE Ord(Ch(a, 1)) < Ord(Ch(b, 1))

\* employee_id values: the number 0 ("0", see FilledId) sorts before every str
IdLess(a, b) ==
    IF a = "0" \/ b = "0" THEN a = "0" /\ b # "0" ELSE StrLess(a, b)

\* (employee_id, employee_name) tuples compare lexicographically
KeyLess(k1, k2) ==
    \/ IdLess(k1[1], k2[1])
    \/ k1[1] = k2[1] /\ StrLess(k1[2], k2[2])

RECURSIVE SortedKeys(_)
SortedKeys(S) ==
    IF S = {} THEN <<>>
    ELSE LET k == CHOOSE a \in S : \A b \in S \ {a} : KeyLess(a, b)
         IN  <<k>> \o SortedKeys(S \ {k})

\* pd.to_numeric(errors="coerce").fillna(0.0) on a float: NaN becomes 0.0 and
\* nothing else changes
coerce_money(v) == IF v.k = "nan" THEN Zero ELSE v

\* the aggregation with the infinities replaced as well
CoerceRow(r) ==
    [r EXCEPT !.gross_amount = coerce_money(r.gross_amount),
              !.net_amount = coerce_money(r.net_amount),
              !.commission_amount = coerce_money(r.commission_amount)]

\* the rows of one group, in their order
RECURSIVE GroupRows(_, _)
GroupRows(rows, k) ==
    IF rows = <<>> THEN <<>>
    ELSE (IF <<Head(rows).employee_id, Head(rows).employee_name>> = k
          THEN <<Head(rows)>> ELSE <<>>) \o GroupRows(Tail(rows), k)

\* Series.sum() of a column
RECURSIVE SumNet(_)
SumNet(rows) ==
    IF rows = <<>> THEN Zero ELSE FAdd(Head(rows).net_amount, SumNet(Tail(rows)))

RECURSIVE SumCommission(_)
SumCommission(rows) ==
    IF rows = <<>> THEN Zero
    ELSE FAdd(Head(rows).commission_amount, SumCommission(Tail(rows)))

\* the column payroll_total aggregates
PayrollColumnSum(rows) == SumNet(rows)

BreakdownHead == 50

HeadRows(rows, n) == SubSeq(rows, 1, IF Len(rows) < n THEN Len(rows) ELSE n)

GroupKeys(merged) ==
    {<<merged[i].employee_id, merged[i].employee_name>> : i \in 1..Len(merged)}

\* groupby(["employee_id","employee_name"], dropna=False): the keys ascending
GroupOrder(merged) == SortedKeys(GroupKeys(merged))

EmployeeTotal(merged, k) ==
    LET sub == GroupRows(merged, k)
        pt  == PayrollColumnSum(sub)
        ct  == SumCommission(sub)
    IN  [employee_id |-> k[1], employee_name |-> k[2],
         payroll_total |-> pt, commission_total |-> ct,
         combined_total |-> FAdd(pt, ct)]

Breakdown(merged, k) ==
    LET sub == GroupRows(merged, k)
    IN  [employee_id |-> k[1], employee_name |-> k[2],
         rows_count |-> Len(sub), rows |-> HeadRows(sub, BreakdownHead)]

build_payload(payroll_norm, commission_norm) ==
    LET concat == payroll_norm \o commission_norm
        merged == [i \in 1..Len(concat) |-> CoerceRow(concat[i])]
        order  == GroupOrder(merged)
        pt     == PayrollColumnSum(merged)
        ct     == SumCommission(merged)
    IN  [employee_totals |-> [g \in 1..Len(order) |-> EmployeeTotal(merged, order[g])],
         grand_totals |-> [payroll_total |-> pt, commission_total |-> ct,
                           combined_total |-> FAdd(pt, ct)],
         employee_breakdowns |-> [g \in 1..Len(order) |-> Breakdown(merged, order[g])]]

NoPayload == [employee_totals |-> <<>>,
              grand_totals |-> [payroll_total |-> Unset, commission_total |-> Unset,
                                combined_total |-> Unset],
              employee_breakdowns |-> <<>>]

-----------------------------------------------------------------------------
(* Uploads *)

\* A decoded table: cols are the headers, rows the body, one cell string per
\* column.  A missing cell (NaN) is the string "nan": every use of a cell below
\* goes through str(), which renders NaN so.
Table(cols, rows) == [cols |-> cols, rows |-> rows]

EmptyTable == Table(<<>>, <<>>)

\* DataFrame.empty
IsEmptyTable(df) == Len(df.cols) = 0 \/ Len(df.rows) = 0

Column(df, c) == [i \in 1..Len(df.rows) |-> df.rows[i][c]]

\* An uploaded buffer with its filename.  size is its length in bytes; sig is
\* the offset of the first "<html" or "<!doctype" in it (-1: none) and siglen
\* the length of that signature; content is
\* what the bytes really are, whatever the filename says: "empty" (zero
\* bytes), "html", "xls", "xlsx", "csv" or "junk"; blocks are the staff blocks
\* of a Mindbody payroll page and table the table a decoder of that content
\* yields.  A filename of None is "" (the code reads it as filename or "").
Upload(fn, size, sig, content, blocks, table) ==
    [filename |-> fn, size |-> size, sig |-> sig, siglen |-> Len("<html"),
     content |-> content, blocks |-> blocks, table |-> table]

EmptyUpload(fn) == Upload(fn, 0, -1, "empty", <<>>, EmptyTable)

NoUpload == EmptyUpload("")

\* a div.staffHeader: the text of its .staffName, and the table.results.appointments
\* that follows it (hasTable: whether the sibling walk finds one)
StaffBlock(name, hasTable, table) == [name |-> name, hasTable |-> hasTable, table |-> table]

-----------------------------------------------------------------------------
(* parse_mindbody_payroll_xls *)

\* the nested to_money of parse_mindbody_payroll_xls
to_money_html(a) ==
    LET t == Strip(IF a.none THEN "" ELSE a.s)
    IN  IF t = "" THEN Zero
        ELSE LET neg == StartsWith(t, "(") /\ EndsWith(t, ")")
                 u   == Remove(Remove(Remove(Remove(t, "$"), ","), "("), ")")
                 m   == re_search_number(u)
                 v   == IF m # "" THEN DecimalValue(m) ELSE Zero
             IN  IF neg THEN FNeg(v) ELSE v

RECURSIVE Concat(_)
Concat(ss) == IF ss = <<>> THEN "" ELSE Head(ss) \o Concat(Tail(ss))

RECURSIVE FilterRows(_)
FilterRows(rows) ==
    IF rows = <<>> THEN <<>>
    ELSE (IF Strip(Concat(Head(rows))) # "" THEN <<Head(rows)>> ELSE <<>>)
         \o FilterRows(Tail(rows))

RECURSIVE KeptCols(_, _)
KeptCols(cols, c) ==
    IF c > Len(cols) THEN <<>>
    ELSE (IF Strip(cols[c]) # "" THEN <<c>> ELSE <<>>) \o KeptCols(cols, c + 1)

\* "tidy": headers stripped, columns with a blank header dropped, then rows
\* whose cells join to a blank string dropped
Tidy(df) ==
    LET keep == KeptCols(df.cols, 1)
        cols == [k \in 1..Len(keep) |-> Strip(df.cols[keep[k]])]
        rows == [i \in 1..Len(df.rows) |-> [k \in 1..Len(keep) |-> df.rows[i][keep[k]]]]
    IN  Table(cols, FilterRows(rows))

all_numeric_headers(cs) == \A c \in 1..Len(cs) : AllDigits(Strip(cs[c]))

\* first column whose lowered header contains one of the options (0: None)
pick_contains(cols, options) ==
    LET lc   == [c \in 1..Len(cols) |-> Lower(Strip(cols[c]))]
        hits == {c \in 1..Len(cols) : \E opt \in options : Contains(lc[c], opt)}
    IN  IF hits = {} THEN 0 ELSE CHOOSE c \in hits : \A d \in hits : c <= d

base_col(cols) ==
    IF all_numeric_headers(cols) THEN (IF Len(cols) > 6 THEN 7 ELSE 0)
    ELSE pick_contains(cols, {"base pay", "base"})

earn_options == {"earnings", "net pay", "total pay", "total", "pay"}

earn_col(cols) ==
    IF all_numeric_headers(cols) THEN (IF Len(cols) > 8 THEN 9 ELSE 0)
    ELSE pick_contains(cols, earn_options)

\* the records of one staff block (<<>> when the block is skipped)
StaffRows(block) ==
    LET employee_name == Strip(block.name)
        df == Tidy(block.table)
        b  == base_col(df.cols)
        e  == earn_col(df.cols)
    IN  IF employee_name = "" THEN <<>>
        ELSE IF ~block.hasTable THEN <<>>
        ELSE IF Len(block.table.cols) = 0 THEN <<>>
        ELSE IF IsEmptyTable(df) THEN <<>>
        ELSE IF e = 0 THEN <<>>
        ELSE [i \in 1..Len(df.rows) |->
                [employee_id |-> "",
                 employee_name |-> employee_name,
                 source |-> "payroll",
                 gross_amount |-> IF b # 0 THEN to_money_html(Str(df.rows[i][b])) ELSE Zero,
                 net_amount |-> to_money_html(Str(df.rows[i][e])),
                 commission_amount |-> Zero]]

RECURSIVE AllStaffRows(_)
AllStaffRows(blocks) ==
    IF blocks = <<>> THEN <<>> ELSE StaffRows(Head(blocks)) \o AllStaffRows(Tail(blocks))

parse_mindbody_payroll_xls(upload) == AllStaffRows(upload.blocks)

\* fillna(0) on a record: a NaN amount becomes 0
FillNa(r) ==
    [r EXCEPT !.gross_amount = IF @.k = "nan" THEN Zero ELSE @,
              !.net_amount = IF @.k = "nan" THEN Zero ELSE @,
              !.commission_amount = IF @.k = "nan" THEN Zero ELSE @]

\* the readers return frames with all 15 columns, so the subset test holds
normalize_payroll(df) == [i \in 1..Len(df) |-> FillNa(df[i])]

-----------------------------------------------------------------------------
(* Decoders.  Each returns [ok, table]: ok = FALSE is a raised exception. *)

Raised == [ok |-> FALSE, table |-> EmptyTable]

Decoded(t) == [ok |-> TRUE, table |-> t]

\* pd.read_excel(engine=...): openpyxl reads an OOXML workbook, xlrd a legacy one,
\* and each raises on anything else, zero bytes included
read_excel(upload, engine) ==
    IF upload.content = (IF engine = "openpyxl" THEN "xlsx" ELSE "xls")
    THEN Decoded(upload.table)
    ELSE Raised

\* pd.read_csv: raises EmptyDataError on zero bytes; bytes that are not
\* delimited text are taken to raise too
read_csv(upload) ==
    IF upload.content = "csv" THEN Decoded(upload.table) ELSE Raised

\* pd.read_html(...)[0]: the first table of the markup; raises when there is none
read_html(upload) ==
    IF upload.content = "html" /\ Len(upload.table.cols) > 0
    THEN Decoded(upload.table)
    ELSE Raised

\* an "<html" or "<!doctype" anywhere in the buffer
HasSignature(upload) == upload.sig >= 0

SniffLen == 1000

\* upload[:1000].lower().find(b"<html") != -1 or ...find(b"<!doctype") != -1
HasEarlySignature(upload) == upload.sig >= 0 /\ upload.sig + upload.siglen <= SniffLen

-----------------------------------------------------------------------------
(* read_raw *)

read_raw(upload) ==
    LET fn    == Lower(upload.filename)
        sniff == read_html(upload)
        first == IF EndsWith(fn, ".csv") THEN read_csv(upload)
                 ELSE IF EndsWith(fn, ".xlsx") THEN read_excel(upload, "openpyxl")
                 ELSE IF EndsWith(fn, ".xls") THEN read_excel(upload, "xlrd")
                 ELSE IF EndsWith(fn, ".xml") THEN Decoded(EmptyTable)
                 ELSE Raised   \* no branch returns: on to the scan, as after a raise
        again == read_html(upload)
    IN  IF EndsWith(fn, ".xls") /\ HasEarlySignature(upload)
        THEN (IF sniff.ok THEN sniff.table ELSE EmptyTable)
        ELSE IF first.ok THEN first.table
        ELSE IF again.ok THEN again.table
        ELSE EmptyTable

-----------------------------------------------------------------------------
(* read_payroll_by_totalfor *)

\* float(t): [ok, v].  The cells of this model hold no exponent and no
\* underscore, so those forms are not parsed here.
py_float(t0) ==
    LET t    == Strip(t0)
        neg  == StartsWith(t, "-")
        body == IF StartsWith(t, "-") \/ StartsWith(t, "+") THEN Tail(t) ELSE t
        low  == Lower(body)
        dots == {i \in 1..Len(body) : Ch(body, i) = "."}
        ip   == IF dots = {} THEN body
                ELSE SubSeq(body, 1, (CHOOSE i \in dots : TRUE) - 1)
        fp   == IF dots = {} THEN ""
                ELSE SubSeq(body, (CHOOSE i \in dots : TRUE) + 1, Len(body))
        sgn(v) == IF neg THEN FNeg(v) ELSE v
    IN  IF low \in {"inf", "infinity"} THEN [ok |-> TRUE, v |-> sgn(PInf)]
        ELSE IF low = "nan" THEN [ok |-> TRUE, v |-> NaN]
        ELSE IF /\ Cardinality(dots) <= 1
                /\ ip \o fp # ""
                /\ \A i \in 1..Len(ip) : IsDigit(Ch(ip, i))
                /\ \A i \in 1..Len(fp) : IsDigit(Ch(fp, i))
             THEN [ok |-> TRUE,
                   v |-> sgn(Fin(DigitsVal(ip) * Pow10(Len(fp)) + DigitsVal(fp), Len(fp)))]
        ELSE [ok |-> FALSE, v |-> Zero]

\* the nested to_money of read_payroll_by_totalfor
to_money_excel(a) ==
    LET t == Strip(IF a.none THEN "" ELSE a.s)
    IN  IF t = "" THEN Zero
        ELSE LET neg == StartsWith(t, "(") /\ EndsWith(t, ")")
                 u   == Remove(Remove(Remove(Remove(t, "$"), ","), "("), ")")
                 f   == py_float(u)
             IN  IF f.ok THEN (IF neg THEN FNeg(f.v) ELSE f.v) ELSE Zero

\* cols_lower.get(name): the last column whose stripped, lowered header is name
\* (0: None)
cols_lower_get(cols, name) ==
    LET hits == {c \in 1..Len(cols) : Lower(Strip(cols[c])) = name}
    IN  IF hits = {} THEN 0 ELSE CHOOSE c \in hits : \A d \in hits : d <= c

excel_earn_col(cols) ==
    IF cols_lower_get(cols, "earnings") # 0 THEN cols_lower_get(cols, "earnings")
    ELSE IF cols_lower_get(cols, "net pay") # 0 THEN cols_lower_get(cols, "net pay")
    ELSE IF cols_lower_get(cols, "total pay") # 0 THEN cols_lower_get(cols, "total pay")
    ELSE cols_lower_get(cols, "total")

\* the rows built from a real workbook, before the closing fillna(0)
ExcelRows(raw) ==
    LET b == cols_lower_get(raw.cols, "base pay")
        e == excel_earn_col(raw.cols)
    IN  [i \in 1..Len(raw.rows) |->
            [employee_id |-> "",
             employee_name |-> "",
             source |-> "payroll",
             gross_amount |-> IF b # 0 THEN to_money_excel(Str(raw.rows[i][b])) ELSE Zero,
             net_amount |-> to_money_excel(Str(raw.rows[i][e])),
             commission_amount |-> Zero]]

read_payroll_by_totalfor(upload) ==
    LET fn  == Lower(upload.filename)
        raw == IF EndsWith(fn, ".xlsx") THEN read_excel(upload, "openpyxl")
               ELSE read_excel(upload, "xlrd")
    IN  IF EndsWith(fn, ".xls") /\ HasSignature(upload)
        THEN parse_mindbody_payroll_xls(upload)
        ELSE IF ~raw.ok THEN <<>>
        ELSE IF excel_earn_col(raw.table.cols) = 0 THEN <<>>
        ELSE LET out == ExcelRows(raw.table)
             IN  [i \in 1..Len(out) |-> FillNa(out[i])]

-----------------------------------------------------------------------------
(* read_commission_sections *)

read_commission_sections(upload) ==
    LET fn    == Lower(upload.filename)
        first == IF EndsWith(fn, ".csv") THEN read_csv(upload)
                 ELSE IF EndsWith(fn, ".xlsx") THEN read_excel(upload, "openpyxl")
                 ELSE IF EndsWith(fn, ".xls")
                      THEN (IF HasEarlySignature(upload) THEN read_html(upload)
                            ELSE read_excel(upload, "xlrd"))
                 ELSE Decoded(EmptyTable)
        again == read_html(upload)
    IN  IF first.ok THEN first.table
        ELSE IF again.ok THEN again.table
        ELSE EmptyTable

-----------------------------------------------------------------------------
(* normalize_commission *)

\* ^\s*\(?\$?-?\d{1,3}(?:,\d{3})*(?:\.\d{2})?\)?\s*$ | ^\s*\(?\$?-?\d+(?:\.\d{2})?\)?\s*$
IsGroupedDigits(b) ==
    \E n \in 1..3 :
        /\ n <= Len(b)
        /\ (Len(b) - n) % 4 = 0
        /\ \A i \in 1..n : IsDigit(Ch(b, i))
        /\ \A i \in (n + 1)..Len(b) :
              IF (i - n) % 4 = 1 THEN Ch(b, i) = "," ELSE IsDigit(Ch(b, i))

money_re_match(s) ==
    LET a1 == IF StartsWith(s, "(") THEN Tail(s) ELSE s
        a2 == IF StartsWith(a1, "$") THEN Tail(a1) ELSE a1
        a3 == IF StartsWith(a2, "-") THEN Tail(a2) ELSE a2
        b1 == IF EndsWith(a3, ")") THEN SubSeq(a3, 1, Len(a3) - 1) ELSE a3
        b2 == IF /\ Len(b1) >= 3
                 /\ Ch(b1, Len(b1) - 2) = "."
                 /\ IsDigit(Ch(b1, Len(b1) - 1))
                 /\ IsDigit(Ch(b1, Len(b1)))
              THEN SubSeq(b1, 1, Len(b1) - 3)
              ELSE b1
    IN  (b2 # "" /\ \A i \in 1..Len(b2) : IsDigit(Ch(b2, i))) \/ IsGroupedDigits(b2)

looks_money(cell) == money_re_match(Strip(cell))

looks_name(cell) ==
    LET s == Strip(cell)
    IN  IF s = "" THEN FALSE
        ELSE IF Contains(s, ",") /\ HasAlpha(s) THEN TRUE
        ELSE Contains(s, " ") /\ HasAlpha(s)

bad_kw ==
    {"service", "product", "sku", "qty", "quantity", "item", "description", "benefit",
     "benefits", "set", "refill", "refills", "package", "membership", "member", "add-on",
     "addon", "brow", "lash", "gel", "lift", "tint", "classic", "hybrid", "volume",
     "clear", "mask", "payscale", "pay rate", "|"}

looks_catalog(cell) ==
    LET s == Lower(Strip(cell))
    IN  IF s = "" THEN FALSE
        ELSE IF \E k \in bad_kw : Contains(s, k) THEN TRUE
        ELSE IF (Len(s) > 40 /\ ~Contains(s, ",")) \/ CountChar(s, " ") >= 6 THEN TRUE
        ELSE HasDigit(s) /\ ~Contains(s, ",")

NameCount(col) == Cardinality({i \in 1..Len(col) : looks_name(col[i])})

CatalogCount(col) == Cardinality({i \in 1..Len(col) : looks_catalog(col[i])})

MoneyCount(col) == Cardinality({i \in 1..Len(col) : looks_money(col[i])})

\* next((c for c in cols if any(tok in c.lower() for tok in tokens)), None); 0 is None
FirstByToken(cols, tokens) ==
    LET lc   == [c \in 1..Len(cols) |-> Lower(cols[c])]
        hits == {c \in 1..Len(cols) : \E tok \in tokens : Contains(lc[c], tok)}
    IN  IF hits = {} THEN 0 ELSE CHOOSE c \in hits : \A d \in hits : c <= d

\* the loop "if score > best_score: best, best_score = c, score" from a start
\* below every score: the first column with the highest score (0 for no column).
\* Headers are distinct in the tables of this model, so no column's score raises.
FirstBest(scores) ==
    IF Len(scores) = 0 THEN 0
    ELSE CHOOSE c \in 1..Len(scores) :
            /\ \A d \in 1..Len(scores) : scores[d] <= scores[c]
            /\ \A d \in 1..(c - 1) : scores[d] < scores[c]

SampleRows == 200

Sample(df) == Table(df.cols, HeadRows(df.rows, SampleRows))

name_tokens == {"employee", "employee name", "staff", "staff name", "provider",
                "service provider"}

amt_tokens == {"commission amount", "commission", "total commission", "amount", "amt"}

StripCols(df) == Table([c \in 1..Len(df.cols) |-> Strip(df.cols[c])], df.rows)

NameScore(df, c) ==
    NameCount(Column(Sample(df), c)) - 2 * CatalogCount(Column(Sample(df), c))

MoneyScore(df, c) == MoneyCount(Column(Sample(df), c))

\* 1) the employee name column (0: none)
emp_col(df) ==
    LET byToken == FirstByToken(df.cols, name_tokens)
    IN  IF byToken # 0 THEN byToken
        ELSE FirstBest([c \in 1..Len(df.cols) |-> NameScore(df, c)])

\* 3) the commission amount column (0: none)
amt_col(df) ==
    LET byToken == FirstByToken(df.cols, amt_tokens)
    IN  IF byToken # 0 THEN byToken
        ELSE FirstBest([c \in 1..Len(df.cols) |-> MoneyScore(df, c)])

Unassigned == "Unassigned"

\* the sanitizer without its test for a blank cell
employee_name_keep_blank(v) ==
    LET t == Strip(v) IN IF looks_catalog(t) THEN Unassigned ELSE t

employee_name_of(v) ==
    LET t == Strip(v) IN IF t = "" \/ looks_catalog(t) THEN Unassigned ELSE t

\* employee_id of a normalized commission row.  out["employee_id"] = "" is set
\* on the still empty frame, so the rows the next column brings get NaN there,
\* and the closing fillna(0) makes it the number 0 (written "0" here).
FilledId == "0"

\* the normalizer with a placeholder row for an empty table
normalize_commission_placeholder(df0) ==
    IF IsEmptyTable(df0)
    THEN <<[employee_id |-> FilledId, employee_name |-> Unassigned, source |-> "commission",
            gross_amount |-> Zero, net_amount |-> Zero, commission_amount |-> Zero]>>
    ELSE <<>>

normalize_commission(df0) ==
    IF IsEmptyTable(df0) THEN <<>>
    ELSE LET df == StripCols(df0)
             e  == emp_col(df)
             a  == amt_col(df)
         IN  [i \in 1..Len(df.rows) |->
                [employee_id |-> FilledId,
                 employee_name |-> IF e # 0 THEN employee_name_of(df.rows[i][e])
                                   ELSE Unassigned,
                 source |-> "commission",
                 gross_amount |-> Zero,
                 net_amount |-> Zero,
                 commission_amount |-> IF a # 0 THEN _to_money(Str(df.rows[i][a]))
                                       ELSE Zero]]

-----------------------------------------------------------------------------
(* Runs.  pc lists the calls still to be made; each action is one call. *)

Step(name) == pc # <<>> /\ Head(pc) = name /\ pc' = Tail(pc)

Pending(name) == \E i \in 1..Len(pc) : pc[i] = name

Done == pc = <<>>

\* build_payload has returned
Built == Done /\ payload # NoPayload

-----------------------------------------------------------------------------
(* Money parser run: one cell through _to_money *)

Alphabet == {"$", ",", "(", ")", "-", ".", "1", "2", " ", "g"}

RECURSIVE Strs(_)
Strs(n) ==
    IF n = 0 THEN {""}
    ELSE LET shorter == Strs(n - 1)
         IN  shorter \cup {s \o c : s \in {t \in shorter : Len(t) = n - 1}, c \in Alphabet}

MoneyExamples == {"$1,234.56", "(50.00)", "", "garbage", "   ", "(-5)", "x-3.50y7"}

MoneyInputs == {None} \cup {Str(s) : s \in Strs(MaxLen) \cup MoneyExamples}

InitMoney ==
    /\ pc = <<"to_money">>
    /\ x \in MoneyInputs
    /\ money = Unset
    /\ p_upload = NoUpload /\ c_upload = NoUpload
    /\ p_df = <<>> /\ c_df = EmptyTable /\ c_norm = <<>>
    /\ p_norm = <<>> /\ payload = NoPayload

ToMoney ==
    /\ Step("to_money")
    /\ money' = _to_money(x)
    /\ UNCHANGED <<x, p_upload, p_df, c_upload, c_df, c_norm, p_norm, payload>>

SpecMoney == InitMoney /\ [][ToMoney]_vars

(* The money parser as section 4.5 and 8 of the spec describe it *)

IsDecimalStr(s) ==
    LET b == IF StartsWith(s, "-") THEN Tail(s) ELSE s
    IN  \/ AllDigits(b)
        \/ \E d \in 2..(Len(b) - 1) :
              /\ Ch(b, d) = "."
              /\ AllDigits(SubSeq(b, 1, d - 1))
              /\ AllDigits(SubSeq(b, d + 1, Len(b)))

RECURSIVE Keep(_, _)
Keep(s, drop) ==
    IF s = "" THEN ""
    ELSE IF Ch(s, 1) \in drop THEN Keep(Tail(s), drop)
    ELSE Ch(s, 1) \o Keep(Tail(s), drop)

\* the first decimal number in u: leftmost start, longest from there
FirstDecimal(u) ==
    LET ms == {ij \in (1..Len(u)) \X (1..Len(u)) :
                 ij[1] <= ij[2] /\ IsDecimalStr(SubSeq(u, ij[1], ij[2]))}
        i0 == CHOOSE i \in {ij[1] : ij \in ms} : \A ij \in ms : i <= ij[1]
        j0 == CHOOSE j \in {ij[2] : ij \in {q \in ms : q[1] = i0}} :
                 \A ij \in ms : ij[1] = i0 => ij[2] <= j
    IN  SubSeq(u, i0, j0)

ParseMoneySpec(a) ==
    IF a.none \/ ~HasDigit(a.s) THEN Zero
    ELSE LET trimmed == Strip(a.s)
             v == DecimalValue(FirstDecimal(Keep(trimmed, {"$", ",", "(", ")"})))
         IN  IF Ch(trimmed, 1) = "(" /\ Ch(trimmed, Len(trimmed)) = ")"
             THEN FNeg(v) ELSE v

\* C9: _to_money is total: it returns a finite float for every cell, 0.0 for
\* None, blank and digit-free cells, and otherwise the first decimal number left
\* after removing "$", ",", "(" and ")", negated exactly when the trimmed cell
\* is wrapped in parentheses; "$1,234.56" gives 1234.56, "(50.00)" gives -50.0,
\* "" and "garbage" give 0.0.
C9_ToMoneyTotal ==
    (Done /\ money # Unset) =>
        /\ money.k = "fin"
        /\ money = ParseMoneySpec(x)
        /\ (x = Str("$1,234.56") => money = [k |-> "fin", m |-> 123456, e |-> 2])
        /\ (x = Str("(50.00)") => money = [k |-> "fin", m |-> -50, e |-> 0])
        /\ (x = Str("") => money = [k |-> "fin", m |-> 0, e |-> 0])
        /\ (x = Str("garbage") => money = [k |-> "fin", m |-> 0, e |-> 0])
        /\ (x = None => money = [k |-> "fin", m |-> 0, e |-> 0])

C9_Witness ==
    /\ Done
    /\ x = Str("$1,234.56")
    /\ money = [k |-> "fin", m |-> 123456, e |-> 2]

-----------------------------------------------------------------------------
(* Money paths run: one cell through the money routine of the decode path
   the file takes *)

MoneyRoutines == {"to_money", "to_money_html", "to_money_excel"}

PathCells == MoneyInputs \cup {Str("inf"), Str("nan"), Str("10.00 USD"), Str("1,250.00")}

InitMoneyPaths ==
    /\ pc \in {<<r>> : r \in MoneyRoutines}
    /\ x \in PathCells
    /\ money = Unset
    /\ p_upload = NoUpload /\ c_upload = NoUpload
    /\ p_df = <<>> /\ c_df = EmptyTable /\ c_norm = <<>>
    /\ p_norm = <<>> /\ payload = NoPayload

ToMoneyHtml ==
    /\ Step("to_money_html")
    /\ money' = to_money_html(x)
    /\ UNCHANGED <<x, p_upload, p_df, c_upload, c_df, c_norm, p_norm, payload>>

ToMoneyExcel ==
    /\ Step("to_money_excel")
    /\ money' = to_money_excel(x)
    /\ UNCHANGED <<x, p_upload, p_df, c_upload, c_df, c_norm, p_norm, payload>>

SpecMoneyPaths == InitMoneyPaths /\ [][ToMoney \/ ToMoneyHtml \/ ToMoneyExcel]_vars

\* C15: the three money routines return the same value for every cell:
\* whichever routine the cell went through, its result is the result of
\* _to_money, of the to_money of parse_mindbody_payroll_xls and of the to_money
\* of read_payroll_by_totalfor.
C15_MoneyRoutinesAgree ==
    (Done /\ money # Unset) =>
        /\ money = _to_money(x)
        /\ money = to_money_html(x)
        /\ money = to_money_excel(x)

\* _to_money and the to_money of parse_mindbody_payroll_xls do agree.
SearchRoutinesAgree ==
    (Done /\ money # Unset /\ Len(pc) = 0) => _to_money(x) = to_money_html(x)

\* The to_money of read_payroll_by_totalfor agrees with them on a cell that
\* float() accepts once "$", ",", "(" and ")" are removed and that starts
\* with a digit, and is 0.0 on every cell float() rejects.
FloatRoutineOnPlainNumbers ==
    (Done /\ money # Unset /\ ~x.none) =>
        LET f == py_float(StripMoneyChars(Strip(x.s)))
        IN  /\ (~f.ok => to_money_excel(x) = Zero)
            /\ (f.ok /\ f.v.k = "fin" /\ IsDigit(Ch(Strip(x.s) \o " ", 1))
                    /\ ~EndsWith(Strip(x.s), ".")
                  => to_money_excel(x) = _to_money(x))

-----------------------------------------------------------------------------
(* Aggregator run: two canonical record sets through build_payload *)

MaxPayrollRecs == 2     \* payroll records given to build_payload

MaxCommissionRecs == 1  \* commission records given to build_payload

MoneyVals == {Zero, Fin(1250, 2), Fin(-3, 0), PInf, NInf, NaN}

Rec(id, name, src, gross, net, comm) ==
    [employee_id |-> id, employee_name |-> name, source |-> src,
     gross_amount |-> gross, net_amount |-> net, commission_amount |-> comm]

PayrollRecs ==
    {Rec(id, name, "payroll", g, n, Zero) :
        id \in {"", "7"}, name \in {"", "Ann"}, g \in {Zero, Fin(5, 0)}, n \in MoneyVals}

CommissionRecs ==
    {Rec(id, name, "commission", Zero, Zero, c) :
        id \in {"", "7"}, name \in {"", "Ann"}, c \in MoneyVals}

SeqsUpTo(S, n) == UNION {[1..k -> S] : k \in 0..n}

InitPayload ==
    /\ pc = <<"build_payload">>
    /\ p_norm \in SeqsUpTo(PayrollRecs, MaxPayrollRecs)
    /\ c_norm \in SeqsUpTo(CommissionRecs, MaxCommissionRecs)
    /\ payload = NoPayload
    /\ x = None /\ money = Unset
    /\ p_upload = NoUpload /\ c_upload = NoUpload
    /\ p_df = <<>> /\ c_df = EmptyTable

BuildPayload ==
    /\ Step("build_payload")
    /\ payload' = build_payload(p_norm, c_norm)
    /\ UNCHANGED <<x, money, p_upload, p_df, c_upload, c_df, c_norm, p_norm>>

SpecPayload == InitPayload /\ [][BuildPayload]_vars


-----------------------------------------------------------------------------
(* Commission run: a decoded table through normalize_commission and
   build_payload (no payroll records) *)

MaxCommissionRows == 2   \* body rows of a commission table

canonical ==
    <<"employee_id", "employee_name", "date", "location", "source", "pay_component",
      "gross_amount", "net_amount", "commission_pct", "commission_amount",
      "tips", "bonus", "notes", "original_row_id", "original_source_file">>

CanonicalRow(name, gross, comm) ==
    <<"", name, "2024-01-01", "nan", "commission", "commission",
      gross, "0.0", "0.0", comm, "0.0", "0.0", "nan", "", "commission.csv">>

CanonicalRows ==
    {CanonicalRow(n, g, c) : n \in {"Doe, Jane"}, g \in {"0.0", "5.00"}, c \in {"7.50", "2.00"}}

ScenarioACols == <<"Date", "Item Name", "Sold By", "Total">>

ScenarioARows ==
    {<<"2024-01-01", "Gel Fill", who, total>> :
        who \in {"Doe, Jane", "Roe, John"}, total \in {"42.50", "10.00"}}

TwoColLayouts == {<<"0", "1">>, <<"Name", "Note">>, <<" Staff ", "Commission">>}

CellPool == {"Doe, Jane", " Ann Lee ", "Visa", "10.00", "ref 12", ""}

TwoColRows == {<<a, b>> : a \in CellPool, b \in CellPool}

CommissionTables ==
    {EmptyTable}
    \cup {Table(canonical, rows) : rows \in SeqsUpTo(CanonicalRows, MaxCommissionRows)}
    \cup {Table(ScenarioACols, rows) : rows \in SeqsUpTo(ScenarioARows, MaxCommissionRows)}
    \cup {Table(cols, rows) :
            cols \in TwoColLayouts, rows \in SeqsUpTo(TwoColRows, MaxCommissionRows)}

InitCommission ==
    /\ pc = <<"normalize_commission", "build_payload">>
    /\ c_df \in CommissionTables
    /\ c_norm = <<>> /\ p_norm = <<>>
    /\ payload = NoPayload
    /\ x = None /\ money = Unset
    /\ p_upload = NoUpload /\ c_upload = NoUpload /\ p_df = <<>>

NormalizeCommission ==
    /\ Step("normalize_commission")
    /\ c_norm' = normalize_commission(c_df)
    /\ UNCHANGED <<x, money, p_upload, p_df, c_upload, c_df, p_norm, payload>>

SpecCommission == InitCommission /\ [][NormalizeCommission \/ BuildPayload]_vars

-----------------------------------------------------------------------------
(* Payroll run: an upload through read_payroll_by_totalfor, normalize_payroll
   and build_payload (no commission records) *)

MaxStaffBlocks == 2    \* staff blocks of a payroll page

MaxPayrollRows == 2    \* body rows of a payroll table

PayrollHeaders == {"Appointment Date", "Base Pay", "Earnings"}

\* a layout: the headers, and which cell of a row (date, base, earn) each
\* column holds ("x": some other cell)
Layout(cols, roles) == [cols |-> cols, roles |-> roles]

TextLayouts ==
    {Layout(<<a, b, c>>, <<a, b, c>>) :
        <<a, b, c>> \in {t \in PayrollHeaders \X PayrollHeaders \X PayrollHeaders :
                            t[1] # t[2] /\ t[1] # t[3] /\ t[2] # t[3]}}

NumericLayouts ==
    {Layout(<<"0", "1", "2", "3", "4", "5", "6", "7", "8">>,
            <<"Appointment Date", "x", "x", "x", "x", "x", "Base Pay", "x", "Earnings">>),
     Layout(<<"0", "1", "2">>, <<"Appointment Date", "Base Pay", "Earnings">>)}

NoEarningsLayouts == {Layout(<<"Appointment Date", "Base">>, <<"Appointment Date", "Base Pay">>)}

PayrollLayouts == TextLayouts \cup NumericLayouts \cup NoEarningsLayouts

BaseCells == {"10.00"}

EarnCells == {"7.00", "(2.50)"}

LayoutRow(l, base, earn) ==
    [c \in 1..Len(l.cols) |->
        IF l.roles[c] = "Appointment Date" THEN "1/2/2024"
        ELSE IF l.roles[c] = "Base Pay" THEN base
        ELSE IF l.roles[c] = "Earnings" THEN earn
        ELSE "x"]

LayoutRows(l) == {LayoutRow(l, b, e) : b \in BaseCells, e \in EarnCells}

LayoutTables(l, n) == {Table(l.cols, rows) : rows \in SeqsUpTo(LayoutRows(l), n)}

StaffNames == {"Jane Doe", "John Roe", ""}

\* a fully-empty row as the frame holds it after astype(str): cells of
\* whitespace (an &nbsp; cell), or "nan" for cells read_html found empty
BlankCells == {" ", "nan"}

BlankRow(l, b) == [c \in 1..Len(l.cols) |-> b]

BlankBodyLayout ==
    Layout(<<"Appointment Date", "Earnings", "Base Pay">>,
           <<"Appointment Date", "Earnings", "Base Pay">>)

\* tables whose body is one or two fully-empty rows, or one followed by a data row
BlankBodyTables ==
    LET l == BlankBodyLayout
    IN  {Table(l.cols, rows) :
            rows \in UNION {{<<BlankRow(l, b)>>, <<BlankRow(l, b), BlankRow(l, b)>>,
                             <<BlankRow(l, b), LayoutRow(l, "10.00", "7.00")>>} :
                                b \in BlankCells}}

StaffBlocks ==
    {StaffBlock(name, FALSE, EmptyTable) : name \in StaffNames}
    \cup {StaffBlock(name, TRUE, t) :
            name \in StaffNames,
            t \in BlankBodyTables
                   \cup UNION {LayoutTables(l, MaxPayrollRows) : l \in PayrollLayouts}}

\* the first table of a page: the table of its first staff block that has one
FirstTable(blocks) ==
    LET with == {i \in 1..Len(blocks) : blocks[i].hasTable}
    IN  IF with = {} THEN EmptyTable
        ELSE blocks[CHOOSE i \in with : \A j \in with : i <= j].table

HtmlPayrollUpload(fn, sig, blocks) == Upload(fn, 4096, sig, "html", blocks, FirstTable(blocks))

HtmlPayrollUploads ==
    {HtmlPayrollUpload("Payroll Detail.xls", 0, blocks) :
        blocks \in SeqsUpTo(StaffBlocks, MaxStaffBlocks)}

ExcelPayrollCols == {<<"Appointment Date", "Base Pay", "Earnings">>, <<"Date", "Base Pay">>}

ExcelCells == {"10.00", "inf", "(inf)", "nan", "n/a"}

ExcelPayrollTables ==
    {Table(cols, rows) :
        cols \in ExcelPayrollCols,
        rows \in SeqsUpTo({<<"1/2/2024", "10.00", e>> : e \in ExcelCells}, MaxPayrollRows)}

ExcelPayrollUploads ==
    {Upload(fn, 4096, -1, "xlsx", <<>>, t) :
        fn \in {"payroll.xlsx", "payroll.xls"}, t \in ExcelPayrollTables}

PayrollUploads ==
    HtmlPayrollUploads \cup ExcelPayrollUploads \cup {EmptyUpload("payroll.xls")}

InitPayroll ==
    /\ pc = <<"read_payroll", "normalize_payroll", "build_payload">>
    /\ p_upload \in PayrollUploads
    /\ c_upload = NoUpload
    /\ p_df = <<>> /\ c_df = EmptyTable
    /\ p_norm = <<>> /\ c_norm = <<>>
    /\ payload = NoPayload
    /\ x = None /\ money = Unset

ReadPayroll ==
    /\ Step("read_payroll")
    /\ p_df' = read_payroll_by_totalfor(p_upload)
    /\ UNCHANGED <<x, money, p_upload, c_upload, c_df, p_norm, c_norm, payload>>

NormalizePayroll ==
    /\ Step("normalize_payroll")
    /\ p_norm' = normalize_payroll(p_df)
    /\ UNCHANGED <<x, money, p_upload, p_df, c_upload, c_df, c_norm, payload>>

SpecPayroll == InitPayroll /\ [][ReadPayroll \/ NormalizePayroll \/ BuildPayload]_vars

-----------------------------------------------------------------------------
(* Ingest run: both uploads through the calls of ingest, in its order *)

Filenames == {"", "report.xls", "Report.XLSX", "report.csv", "report.txt", "report.xml"}

SmallPayrollTable ==
    Table(<<"Appointment Date", "Earnings", "Base Pay">>, <<<<"1/2/2024", "7.00", "10.00">>>>)

SmallCommissionTable == Table(ScenarioACols, <<<<"2024-01-01", "Gel Fill", "Doe, Jane", "42.50">>>>)

\* the buffers of the ingest run, for one table: nothing, a page with and
\* without a signature, a page whose signature starts at byte 2000 or at byte
\* 996 (cut by the first 1000 bytes), the two workbooks, a legacy workbook
\* with the signature text in a cell at byte 600 or 2000, delimited text,
\* other bytes
Contents(blocks, t) ==
    {[size |-> 0, sig |-> -1, content |-> "empty", blocks |-> <<>>, table |-> EmptyTable],
     [size |-> 4096, sig |-> 0, content |-> "html", blocks |-> blocks, table |-> t],
     [size |-> 4096, sig |-> -1, content |-> "html", blocks |-> blocks, table |-> t],
     [size |-> 4096, sig |-> 2000, content |-> "html", blocks |-> blocks, table |-> t],
     [size |-> 4096, sig |-> 996, content |-> "html", blocks |-> blocks, table |-> t],
     [size |-> 4096, sig |-> 600, content |-> "xls", blocks |-> <<>>, table |-> t],
     [size |-> 4096, sig |-> 2000, content |-> "xls", blocks |-> <<>>, table |-> t],
     [size |-> 4096, sig |-> -1, content |-> "xls", blocks |-> <<>>, table |-> t],
     [size |-> 4096, sig |-> -1, content |-> "xlsx", blocks |-> <<>>, table |-> t],
     [size |-> 4096, sig |-> -1, content |-> "csv", blocks |-> <<>>, table |-> t],
     [size |-> 4096, sig |-> -1, content |-> "junk", blocks |-> <<>>, table |-> EmptyTable]}

IngestUploads(blocks, t) ==
    {Upload(fn, c.size, c.sig, c.content, c.blocks, c.table) :
        fn \in Filenames, c \in Contents(blocks, t)}

InitIngest ==
    /\ pc = <<"read_payroll", "read_commission", "normalize_payroll",
              "normalize_commission", "build_payload">>
    /\ p_upload \in IngestUploads(<<StaffBlock("Jane Doe", TRUE, SmallPayrollTable)>>,
                                  SmallPayrollTable)
    /\ c_upload \in IngestUploads(<<>>, SmallCommissionTable)
    /\ p_df = <<>> /\ c_df = EmptyTable
    /\ p_norm = <<>> /\ c_norm = <<>>
    /\ payload = NoPayload
    /\ x = None /\ money = Unset

ReadCommission ==
    /\ Step("read_commission")
    /\ c_df' = read_commission_sections(c_upload)
    /\ UNCHANGED <<x, money, p_upload, p_df, c_upload, p_norm, c_norm, payload>>

NextIngest ==
    ReadPayroll \/ ReadCommission \/ NormalizePayroll \/ NormalizeCommission \/ BuildPayload

SpecIngest == InitIngest /\ [][NextIngest]_vars

(* Claims about build_payload *)

RECURSIVE SumCombined(_)
SumCombined(totals) ==
    IF totals = <<>> THEN Zero
    ELSE FAdd(Head(totals).combined_total, SumCombined(Tail(totals)))

InputsFinite ==
    \A r \in {p_norm[i] : i \in 1..Len(p_norm)} \cup {c_norm[i] : i \in 1..Len(c_norm)} :
        r.gross_amount.k # "inf" /\ r.net_amount.k # "inf" /\ r.commission_amount.k # "inf"

\* C1: the combined_total of the employee_totals entries sums to
\* grand_totals.combined_total, for every pair of record sets.
C1_SumEqualsGrand ==
    Built =>
        FEq(SumCombined(payload.employee_totals), payload.grand_totals.combined_total)

\* The same sum when no amount of the input is an infinity.
FiniteSumEqualsGrand == InputsFinite => C1_SumEqualsGrand

PayloadMoney ==
    {payload.grand_totals.payroll_total, payload.grand_totals.commission_total,
     payload.grand_totals.combined_total}
    \cup UNION {{t.payroll_total, t.commission_total, t.combined_total} :
                  t \in {payload.employee_totals[i] : i \in 1..Len(payload.employee_totals)}}
    \cup UNION {{b.rows[j].gross_amount, b.rows[j].net_amount, b.rows[j].commission_amount} :
                  <<b, j>> \in UNION {{<<bd, n>> : n \in 1..Len(bd.rows)} :
                      bd \in {payload.employee_breakdowns[i] :
                                 i \in 1..Len(payload.employee_breakdowns)}}}

\* C6: every money value of the returned payload (grand totals, employee totals,
\* breakdown rows) is finite: NaN and +/-Infinity were replaced by 0.
C6_PayloadFinite == Built => \A v \in PayloadMoney : IsFinite(v)

\* The part of C6 the code does keep: no NaN amount survives in a breakdown row.
NoNaNRow ==
    Built =>
        \A i \in 1..Len(payload.employee_breakdowns) :
            \A j \in 1..Len(payload.employee_breakdowns[i].rows) :
                LET r == payload.employee_breakdowns[i].rows[j]
                IN  r.gross_amount.k # "nan" /\ r.net_amount.k # "nan"
                    /\ r.commission_amount.k # "nan"

\* the spec's payroll contribution of a record: net_amount if > 0 else gross_amount
PayrollContribution(r) ==
    LET c == CoerceRow(r)
    IN  IF FGt(c.net_amount, Zero) THEN c.net_amount ELSE c.gross_amount

RECURSIVE SumContribution(_)
SumContribution(rows) ==
    IF rows = <<>> THEN Zero
    ELSE FAdd(PayrollContribution(Head(rows)), SumContribution(Tail(rows)))

\* C7: each group's payroll_total, and the grand payroll_total, is the sum of the
\* records' payroll contributions (net_amount when > 0, gross_amount otherwise).
C7_PayrollContribution ==
    Built =>
        /\ FEq(payload.grand_totals.payroll_total, SumContribution(p_norm \o c_norm))
        /\ \A i \in 1..Len(payload.employee_totals) :
              LET t == payload.employee_totals[i]
              IN  FEq(t.payroll_total,
                      SumContribution(GroupRows(p_norm \o c_norm,
                                                 <<t.employee_id, t.employee_name>>)))

\* What the code computes: payroll_total is the sum of net_amount alone.
PayrollTotalIsNetSum ==
    (Built /\ InputsFinite) =>
        FEq(payload.grand_totals.payroll_total,
            SumNet([i \in 1..Len(p_norm \o c_norm) |-> CoerceRow((p_norm \o c_norm)[i])]))

FGe(a, b) == FGt(a, b) \/ FEq(a, b)

\* C8: employee_totals is ordered by combined_total, non-increasing.
C8_SortedDescending ==
    Built =>
        \A i \in 1..(Len(payload.employee_totals) - 1) :
            FGe(payload.employee_totals[i].combined_total,
                payload.employee_totals[i + 1].combined_total)

\* What the code returns: the groups in ascending (employee_id, employee_name) order.
SortedByKey ==
    Built =>
        \A i \in 1..(Len(payload.employee_totals) - 1) :
            KeyLess(<<payload.employee_totals[i].employee_id,
                      payload.employee_totals[i].employee_name>>,
                    <<payload.employee_totals[i + 1].employee_id,
                      payload.employee_totals[i + 1].employee_name>>)


(* Claims about normalize_commission *)

Normalized == ~Pending("normalize_commission") /\ c_df # EmptyTable

ColIndex(cols, h) == CHOOSE c \in 1..Len(cols) : cols[c] = h

\* C3: a table with exactly the canonical headers, in canonical order, keeps its
\* amounts: each output row's commission_amount is the value of the input row's
\* commission_amount cell.
C3_CanonicalRoundTrip ==
    (Normalized /\ c_df.cols = canonical) =>
        /\ Len(c_norm) = Len(c_df.rows)
        /\ \A i \in 1..Len(c_norm) :
              FEq(c_norm[i].commission_amount,
                  DecimalValue(c_df.rows[i][ColIndex(canonical, "commission_amount")]))

\* What the code does with the canonical table: the amount is read from the
\* first header that contains an alias, which is gross_amount.
CanonicalReadsGross ==
    (Normalized /\ c_df.cols = canonical) =>
        \A i \in 1..Len(c_norm) :
            FEq(c_norm[i].commission_amount,
                DecimalValue(c_df.rows[i][ColIndex(canonical, "gross_amount")]))

AllDigitHeaders(cols) == \A c \in 1..Len(cols) : AllDigits(cols[c])

NameLike(cell) ==
    (Contains(cell, ",") /\ HasAlpha(cell)) \/ (Contains(cell, " ") /\ HasAlpha(cell))

NoNameLikeCell(df) ==
    \A i \in 1..Len(df.rows) : \A c \in 1..Len(df.cols) : ~NameLike(df.rows[i][c])

\* C4: a non-empty table whose headers are all bare digit strings and that has
\* no name-like cell gets employee_name "Unassigned" on every row, and the
\* payload then has exactly one employee_totals entry.
C4_NumericHeadersUnassigned ==
    (Normalized /\ Len(c_df.rows) > 0 /\ AllDigitHeaders(c_df.cols) /\ NoNameLikeCell(c_df)) =>
        /\ \A i \in 1..Len(c_norm) : c_norm[i].employee_name = "Unassigned"
        /\ (Built => Len(payload.employee_totals) = 1)

\* the name column normalize_commission resolves for the table read (0: none)
ResolvedNameCol == emp_col(StripCols(c_df))

NameCell(i) == Strip(c_df.rows[i][ResolvedNameCol])

\* C13, as claimed: every record emitted by normalize_commission has a
\* non-empty employee_name; it is the trimmed cell of the resolved name column
\* whenever one is resolved and the cell is not blank, and it is "Unassigned"
\* only when no name column is resolved or the cell is blank.
C13_NameIsTrimmedCell ==
    Normalized =>
        \A i \in 1..Len(c_norm) :
            /\ c_norm[i].employee_name # ""
            /\ (ResolvedNameCol # 0 /\ NameCell(i) # "")
                    => c_norm[i].employee_name = NameCell(i)
            /\ c_norm[i].employee_name = "Unassigned"
                    => (ResolvedNameCol = 0 \/ NameCell(i) = "")

\* C13, amended: every record emitted by normalize_commission has a non-empty
\* employee_name; it is the trimmed cell of the resolved name column whenever
\* one is resolved and the cell is neither blank nor catalog-like, and it is
\* "Unassigned" only when no name column is resolved or the cell is blank or
\* catalog-like.
C13_NameIsSanitizedCell ==
    Normalized =>
        \A i \in 1..Len(c_norm) :
            /\ c_norm[i].employee_name # ""
            /\ (ResolvedNameCol # 0 /\ NameCell(i) # "" /\ ~looks_catalog(NameCell(i)))
                    => c_norm[i].employee_name = NameCell(i)
            /\ c_norm[i].employee_name = "Unassigned"
                    => (ResolvedNameCol = 0 \/ NameCell(i) = "" \/ looks_catalog(NameCell(i)))

\* a table with a trimmed name, a blank name cell and a catalog-like name cell
C13_Witness ==
    /\ Normalized
    /\ c_df.cols = <<" Staff ", "Commission">>
    /\ Len(c_norm) = 2
    /\ c_df.rows[1][1] = " Ann Lee " /\ c_norm[1].employee_name = "Ann Lee"
    /\ c_df.rows[2][1] = "" /\ c_norm[2].employee_name = "Unassigned"

NoAmountAlias(cols) ==
    \A c \in 1..Len(cols) :
        \A tok \in {"commission amount", "commission", "total commission", "amount", "amt"} :
            ~Contains(Lower(cols[c]), tok)

NoMoneyCell(df) ==
    \A i \in 1..Len(df.rows) : \A c \in 1..Len(df.cols) : ~looks_money(df.rows[i][c])

\* C5 (commission half): when no header matches an amount alias and no column
\* holds a money-formatted cell, the table emits no record.
CommissionSkipsUnresolved ==
    (Normalized /\ NoAmountAlias(c_df.cols) /\ NoMoneyCell(c_df)) => Len(c_norm) = 0


(* Claims about the payroll readers *)

PayrollRead == ~Pending("read_payroll") /\ p_upload # NoUpload

\* a cell with nothing in it: blank text, or a missing cell ("nan" once the
\* frame is turned to text)
IsBlankCell(cell) == Strip(cell) = "" \/ cell = "nan"

FullyEmptyRow(row) == \A c \in 1..Len(row) : IsBlankCell(row[c])

HasTextualPayrollHeaders(cols) ==
    /\ ~AllDigitHeaders(cols)
    /\ \A h \in {"Appointment Date", "Base Pay", "Earnings"} : \E c \in 1..Len(cols) : cols[c] = h

\* a staff section the claim C2 speaks of
TextualSection(b) ==
    /\ b.name # ""
    /\ b.hasTable
    /\ Len(b.table.rows) > 0
    /\ \A i \in 1..Len(b.table.rows) : ~FullyEmptyRow(b.table.rows[i])
    /\ HasTextualPayrollHeaders(b.table.cols)

SectionRecords(b) ==
    [i \in 1..Len(b.table.rows) |->
        [employee_id |-> "",
         employee_name |-> b.name,
         source |-> "payroll",
         gross_amount |-> ParseMoneySpec(Str(b.table.rows[i][ColIndex(b.table.cols, "Base Pay")])),
         net_amount |-> ParseMoneySpec(Str(b.table.rows[i][ColIndex(b.table.cols, "Earnings")])),
         commission_amount |-> Zero]]

RECURSIVE AllSectionRecords(_)
AllSectionRecords(blocks) ==
    IF blocks = <<>> THEN <<>>
    ELSE SectionRecords(Head(blocks)) \o AllSectionRecords(Tail(blocks))

RECURSIVE SumEarningsOf(_, _)
SumEarningsOf(blocks, name) ==
    IF blocks = <<>> THEN Zero
    ELSE FAdd(IF Head(blocks).name = name THEN SumNet(SectionRecords(Head(blocks))) ELSE Zero,
              SumEarningsOf(Tail(blocks), name))

\* C2: in the HTML-in-.xls payroll path, a staff section with textual headers
\* that include Appointment Date, Base Pay and Earnings, in any order, yields one
\* record per row with net_amount from the Earnings cell and gross_amount from
\* the Base Pay cell, and each staff member's payroll_total is the sum of the
\* Earnings column of that member's sections.
C2_EarningsFromEarningsColumn ==
    (/\ PayrollRead
     /\ p_upload.content = "html"
     /\ p_upload.blocks # <<>>
     /\ \A i \in 1..Len(p_upload.blocks) : TextualSection(p_upload.blocks[i])) =>
        /\ p_df = AllSectionRecords(p_upload.blocks)
        /\ Built =>
             \A i \in 1..Len(p_upload.blocks) :
                \E t \in 1..Len(payload.employee_totals) :
                    /\ payload.employee_totals[t].employee_name = p_upload.blocks[i].name
                    /\ FEq(payload.employee_totals[t].payroll_total,
                           SumEarningsOf(p_upload.blocks, p_upload.blocks[i].name))

\* What the code does keep of C2: the claim holds for the sections whose
\* Earnings header comes before their Base Pay header.
EarningsBeforeBasePay(b) ==
    ColIndex(b.table.cols, "Earnings") < ColIndex(b.table.cols, "Base Pay")

EarningsFirstSectionsRead ==
    (/\ PayrollRead
     /\ p_upload.content = "html"
     /\ \A i \in 1..Len(p_upload.blocks) :
           TextualSection(p_upload.blocks[i]) /\ EarningsBeforeBasePay(p_upload.blocks[i])) =>
        p_df = AllSectionRecords(p_upload.blocks)

TakesHtmlPath(u) == EndsWith(Lower(u.filename), ".xls") /\ u.sig >= 0

NoEarningsHeader(cols) ==
    IF AllDigitHeaders(cols) THEN Len(cols) < 9
    ELSE \A c \in 1..Len(cols) :
            \A opt \in {"earnings", "net pay", "total pay", "total", "pay"} :
                ~Contains(Lower(cols[c]), opt)

\* C5 (payroll half): a payroll section, or workbook, with no earnings column
\* emits no record.
PayrollSkipsUnresolved ==
    (PayrollRead /\ TakesHtmlPath(p_upload)
                 /\ \A i \in 1..Len(p_upload.blocks) :
                       NoEarningsHeader(p_upload.blocks[i].table.cols)) => p_df = <<>>

WorkbookSkipsUnresolved ==
    (PayrollRead /\ ~TakesHtmlPath(p_upload)
                 /\ \A c \in 1..Len(p_upload.table.cols) :
                       Lower(p_upload.table.cols[c]) \notin
                           {"earnings", "net pay", "total pay", "total"}) => p_df = <<>>

\* C5: whenever the mandatory amount role cannot be resolved (commission: no
\* header matches an amount alias and no column holds a money-formatted cell;
\* payroll: no earnings column), the section or table emits no record.
C5_AccuracyFirstSkip ==
    CommissionSkipsUnresolved /\ PayrollSkipsUnresolved /\ WorkbookSkipsUnresolved

(* Claims about the ingest run *)

\* C10: with two zero-byte buffers, whatever the filenames, every call of the
\* pipeline can be made, and the payload has no employee_totals entry and
\* payroll_total, commission_total and combined_total all 0.0.
C10_EmptyBuffers ==
    (p_upload.size = 0 /\ c_upload.size = 0) =>
        /\ Done \/ ENABLED NextIngest
        /\ Done =>
            /\ payload.employee_totals = <<>>
            /\ payload.grand_totals =
                 [payroll_total |-> [k |-> "fin", m |-> 0, e |-> 0],
                  commission_total |-> [k |-> "fin", m |-> 0, e |-> 0],
                  combined_total |-> [k |-> "fin", m |-> 0, e |-> 0]]

C10_Witness ==
    /\ Done
    /\ p_upload.size = 0 /\ c_upload.size = 0
    /\ p_upload.filename = "report.xls" /\ c_upload.filename = "report.csv"
    /\ payload.employee_totals = <<>>
    /\ payload.grand_totals.combined_total = Zero

(* Claims about empty sections *)

\* a body of fully-empty rows only
EmptyBody(t) == Len(t.rows) > 0 /\ \A i \in 1..Len(t.rows) : FullyEmptyRow(t.rows[i])

WhitespaceBody(t) ==
    Len(t.rows) > 0 /\ \A i \in 1..Len(t.rows) : \A c \in 1..Len(t.cols) : Strip(t.rows[i][c]) = ""

RECURSIVE WithoutEmptySections(_)
WithoutEmptySections(blocks) ==
    IF blocks = <<>> THEN <<>>
    ELSE (IF Head(blocks).hasTable /\ EmptyBody(Head(blocks).table) THEN <<>> ELSE <<Head(blocks)>>)
         \o WithoutEmptySections(Tail(blocks))

\* names of the empty sections of p_upload that no other section carries
DroppedNames ==
    {Strip(p_upload.blocks[i].name) : i \in {j \in 1..Len(p_upload.blocks) :
        /\ p_upload.blocks[j].hasTable /\ EmptyBody(p_upload.blocks[j].table)
        /\ \A k \in 1..Len(p_upload.blocks) :
              Strip(p_upload.blocks[k].name) = Strip(p_upload.blocks[j].name)
                  => (p_upload.blocks[k].hasTable /\ EmptyBody(p_upload.blocks[k].table))}}

\* payroll page: the records are those of the page without its empty
\* sections, and no payload entry carries the name of a dropped section
PayrollDropsEmptySections ==
    (PayrollRead /\ TakesHtmlPath(p_upload)) =>
        /\ p_df = AllStaffRows(WithoutEmptySections(p_upload.blocks))
        /\ Built =>
              /\ \A i \in 1..Len(payload.employee_totals) :
                    payload.employee_totals[i].employee_name \notin DroppedNames
              /\ \A i \in 1..Len(payload.employee_breakdowns) :
                    payload.employee_breakdowns[i].employee_name \notin DroppedNames

\* commission table: a table of fully-empty rows only gives no record
CommissionDropsEmptyTable ==
    (Normalized /\ EmptyBody(c_df)) =>
        /\ c_norm = <<>>
        /\ Built => payload.employee_totals = <<>> /\ payload.employee_breakdowns = <<>>

\* C14: a section whose body is fully-empty rows only is dropped: it gives no
\* canonical record and so no employee_totals or employee_breakdowns entry,
\* and the other sections of the file are still processed.
C14_EmptySectionDropped == PayrollDropsEmptySections /\ CommissionDropsEmptyTable

\* A payroll section whose rows hold whitespace only is dropped, and the
\* other sections are processed.
WhitespaceSectionsDropped ==
    (PayrollRead /\ TakesHtmlPath(p_upload)
        /\ \A i \in 1..Len(p_upload.blocks) :
              (p_upload.blocks[i].hasTable /\ EmptyBody(p_upload.blocks[i].table))
                  => WhitespaceBody(p_upload.blocks[i].table))
    => PayrollDropsEmptySections

-----------------------------------------------------------------------------
(* Decode run: one buffer through one of the three decode entry points *)

DecodeUploads ==
    IngestUploads(<<StaffBlock("Jane Doe", TRUE, SmallPayrollTable)>>, SmallPayrollTable)

InitDecode ==
    /\ pc \in {<<"read_raw">>, <<"read_payroll">>, <<"read_commission">>}
    /\ IF pc = <<"read_payroll">>
       THEN p_upload \in DecodeUploads /\ c_upload = NoUpload
       ELSE c_upload \in DecodeUploads /\ p_upload = NoUpload
    /\ p_df = <<>> /\ c_df = EmptyTable
    /\ p_norm = <<>> /\ c_norm = <<>>
    /\ payload = NoPayload
    /\ x = None /\ money = Unset

ReadRaw ==
    /\ Step("read_raw")
    /\ c_df' = read_raw(c_upload)
    /\ UNCHANGED <<x, money, p_upload, p_df, c_upload, p_norm, c_norm, payload>>

NextDecode == ReadRaw \/ ReadPayroll \/ ReadCommission

SpecDecode == InitDecode /\ [][NextDecode]_vars

(* Claims about the decode order *)

\* the decoder the extension selects (the HTML reader for a page disguised as
\* a legacy spreadsheet); a name with no decoder decodes nothing
SelectedDecoder(u) ==
    LET fn == Lower(u.filename)
    IN  IF EndsWith(fn, ".xls") /\ u.sig >= 0 /\ u.sig + u.siglen <= 1000 THEN read_html(u)
        ELSE IF EndsWith(fn, ".csv") THEN read_csv(u)
        ELSE IF EndsWith(fn, ".xlsx") THEN read_excel(u, "openpyxl")
        ELSE IF EndsWith(fn, ".xls") THEN read_excel(u, "xlrd")
        ELSE Raised

\* decoder first, then the HTML scan of the whole buffer, then the empty table
DecodePolicy(u) ==
    IF SelectedDecoder(u).ok THEN SelectedDecoder(u).table
    ELSE IF read_html(u).ok THEN read_html(u).table
    ELSE EmptyTable

RawFollowsPolicy == ReadRaw => c_df' = DecodePolicy(c_upload)

CommissionFollowsPolicy == ReadCommission => c_df' = DecodePolicy(c_upload)

\* the payroll frame is empty only after the HTML scan has failed too
PayrollFollowsPolicy ==
    (ReadPayroll /\ ~SelectedDecoder(p_upload).ok /\ read_html(p_upload).ok) => p_df' # <<>>

\* C11: each decode entry point returns a table for every buffer and filename,
\* in this order: the decoder the extension selects first; when it fails, an
\* HTML-table scan of the whole buffer; the empty table only after the scan
\* has failed too.
C11_DecodeOrder ==
    [][RawFollowsPolicy /\ CommissionFollowsPolicy /\ PayrollFollowsPolicy]_vars

\* read_raw and read_commission_sections follow the order for the names that
\* select a decoder.
KnownExtension(u) ==
    \E ext \in {".csv", ".xlsx", ".xls"} : EndsWith(Lower(u.filename), ext)

KnownExtensionsFollowPolicy ==
    [][(KnownExtension(c_upload) => RawFollowsPolicy /\ CommissionFollowsPolicy)]_vars

(* Claims about the classification of a buffer *)

ReadsDone == ~Pending("read_payroll") /\ ~Pending("read_commission")

\* HTML disguised as a legacy spreadsheet: the filename ends in .xls and a
\* signature lies within the first 1000 bytes
ClassifiedHtml(u) ==
    EndsWith(Lower(u.filename), ".xls") /\ u.sig >= 0 /\ u.sig + u.siglen <= 1000

\* what the payroll dispatcher returns when it does not take the HTML path
PayrollWorkbookPath(u) ==
    LET raw == read_excel(u, IF EndsWith(Lower(u.filename), ".xlsx") THEN "openpyxl" ELSE "xlrd")
    IN  IF ~raw.ok \/ excel_earn_col(raw.table.cols) = 0 THEN <<>>
        ELSE [i \in 1..Len(raw.table.rows) |-> FillNa(ExcelRows(raw.table)[i])]

\* what the commission reader returns for a .xls name on its HTML path, and
\* on its legacy workbook path
CommissionHtmlPath(u) == IF read_html(u).ok THEN read_html(u).table ELSE EmptyTable

CommissionWorkbookPath(u) ==
    IF read_excel(u, "xlrd").ok THEN read_excel(u, "xlrd").table ELSE CommissionHtmlPath(u)

PayrollClassification ==
    ReadsDone =>
        p_df = IF ClassifiedHtml(p_upload) THEN parse_mindbody_payroll_xls(p_upload)
               ELSE PayrollWorkbookPath(p_upload)

CommissionClassification ==
    (ReadsDone /\ EndsWith(Lower(c_upload.filename), ".xls")) =>
        c_df = IF ClassifiedHtml(c_upload) THEN CommissionHtmlPath(c_upload)
               ELSE CommissionWorkbookPath(c_upload)

\* C12: a buffer takes the HTML path exactly when its filename ends in .xls
\* and an "<html" or "<!doctype" signature occurs within its first 1000 bytes,
\* in the payroll dispatcher and in the commission reader alike: a signature
\* that lies only after byte 1000 selects the HTML path in neither.
C12_HtmlClassification == PayrollClassification /\ CommissionClassification

\* The payroll dispatcher takes the HTML path when the filename ends in .xls
\* and a signature occurs anywhere in the buffer.
PayrollClassifiesAnywhere ==
    ReadsDone =>
        p_df = IF EndsWith(Lower(p_upload.filename), ".xls") /\ p_upload.sig >= 0
               THEN parse_mindbody_payroll_xls(p_upload)
               ELSE PayrollWorkbookPath(p_upload)

=============================================================================
